---------------------------- MODULE Spec2Model ----------------------------
(***************************************************************************)
(* Model of the f1live race-control bots.                                  *)
(*                                                                         *)
(*   src/live.py   streaming variant: split_message, format_message,       *)
(*                 process_messages, monitor_live_race_control             *)
(*   src/hello.py  polling variant: format_bluesky_message,                *)
(*                 create_hashtag_facets, post_to_bluesky, monitor_f1_data *)
(*                                                                         *)
(* A text is a sequence of code points, each named by a string: Python's   *)
(* len() counts code points, and so does Len here.  Python indices are     *)
(* 0-based; Slice and RFind keep Python's convention so that the           *)
(* definitions read like the source.                                       *)
(***************************************************************************)
EXTENDS Integers, Sequences, FiniteSets, TLC

VARIABLES
    \* split_message (src/live.py:15-28), one loop iteration per step
    sm_text,            \* argument text
    max_length,         \* argument max_length
    parts,              \* local parts
    current_part,       \* local current_part
    sm_pc               \* "loop" | "done"

splitVars == <<sm_text, max_length, parts, current_part, sm_pc>>

VARIABLES
    \* format_message (src/live.py:53-90) and format_bluesky_message
    \* (src/hello.py:78-100) applied to one message
    fm_msg,             \* the message
    fm_parts,           \* what format_message returned
    fm_pc,              \* "call" | "returned"
    fb_message,         \* what format_bluesky_message returned
    fb_pc               \* "call" | "returned"

formatVars == <<fm_msg, fm_parts, fm_pc, fb_message, fb_pc>>

VARIABLES
    \* create_hashtag_facets (src/hello.py:103-121) applied to one text
    hf_text,            \* argument text
    hf_facets,          \* the list returned
    hf_pc               \* "call" | "returned"

facetVars == <<hf_text, hf_facets, hf_pc>>

VARIABLES
    \* monitor_f1_data (src/hello.py:133-176)
    previous_messages,  \* local previous_messages
    data,               \* what fetch_f1_data returned on this tick
    current_messages,   \* local current_messages
    new_messages,       \* the new messages the for loop has yet to visit
    p_pc,               \* "fetch" | "post" | "sleep" | "crashed" | "exit"
    p_tick,             \* number of the tick under way
    p_prev_data,        \* what fetch_f1_data returned on the tick before
    p_ever,             \* history: identities seen in any fetched batch
    p_tick_new,         \* history: identities submitted on this tick
    p_submits,          \* history: send_post calls per identity
    p_posts,            \* history: identities the service accepted a post of
    p_last,             \* history: the last send_post call, if any
    p_last_batch,       \* history: identities of the last non-empty batch
                        \* fetched on an earlier tick
    p_err,              \* history: the last exception raised while fetching
    p_int,              \* history: an interrupt has arrived
    p_log               \* the line __main__ printed on the way out

pollVars ==
    <<previous_messages, data, current_messages, new_messages, p_pc, p_tick,
      p_prev_data, p_ever, p_tick_new, p_submits, p_posts, p_last,
      p_last_batch, p_err, p_int, p_log>>

VARIABLES
    \* monitor_live_race_control and process_messages (src/live.py:93-143)
    client,             \* the SignalRClient in use (a construction count)
    bsky,               \* the logged-in posting client
    processed_messages, \* local processed_messages
    messages,           \* what client.get_data returned on this tick
    s_i,                \* position of the for loop in messages
    message_parts,      \* local message_parts
    s_k,                \* the part to post next
    parent,             \* local parent: the handle of the last post
    s_pc,               \* "get_data" | "for" | "send" | "sleep" | "reconnect"
                        \* | "exit"
    s_tick,             \* number of the loop iteration under way
    s_attempts,         \* history: send_post calls per message and part
    s_failed,           \* history: messages with a send_post call that raised
    s_posts,            \* history: the posts the service accepted, each
                        \* with the loop iteration it was accepted on
    s_last,             \* history: the last send_post call, if any
    s_tick_tried,       \* history: messages handed to send_post on this tick
    s_reader,           \* history: the client of the last get_data call
    s_delivered,        \* history: messages get_data has returned so far
    s_int,              \* history: an interrupt has arrived
    s_log               \* the last line __main__ logged on the way out

streamVars ==
    <<client, bsky, processed_messages, messages, s_i, message_parts, s_k,
      parent, s_pc, s_tick, s_attempts, s_failed, s_posts, s_last,
      s_tick_tried, s_reader, s_delivered, s_int, s_log>>

vars == <<splitVars, formatVars, facetVars, pollVars, streamVars>>

\* Python's None.
None == "None"

\* The values of a group of variables while another function is the one
\* under study.
SplitIdle ==
    /\ sm_text = <<>>
    /\ max_length = 0
    /\ parts = <<>>
    /\ current_part = <<>>
    /\ sm_pc = "idle"

FormatIdle ==
    /\ fm_msg = None
    /\ fm_parts = <<>>
    /\ fm_pc = "idle"
    /\ fb_message = <<>>
    /\ fb_pc = "idle"

FacetIdle ==
    /\ hf_text = <<>>
    /\ hf_facets = <<>>
    /\ hf_pc = "idle"

\* What fetch_f1_data returns: None, or the list of rows it decoded.
NoData == [ok |-> FALSE, rows |-> <<>>]
Fetched(rows) == [ok |-> TRUE, rows |-> rows]

PollIdle ==
    /\ previous_messages = {}
    /\ data = NoData
    /\ current_messages = {}
    /\ new_messages = {}
    /\ p_pc = "idle"
    /\ p_tick = 0
    /\ p_prev_data = NoData
    /\ p_ever = {}
    /\ p_tick_new = {}
    /\ p_submits = <<>>
    /\ p_posts = {}
    /\ p_last = <<>>
    /\ p_last_batch = {}
    /\ p_err = None
    /\ p_int = FALSE
    /\ p_log = ""

StreamIdle ==
    /\ client = 0
    /\ bsky = None
    /\ processed_messages = {}
    /\ messages = <<>>
    /\ s_i = 0
    /\ message_parts = <<>>
    /\ s_k = 0
    /\ parent = 0
    /\ s_pc = "idle"
    /\ s_tick = 0
    /\ s_attempts = <<>>
    /\ s_failed = {}
    /\ s_posts = {}
    /\ s_last = <<>>
    /\ s_tick_tried = {}
    /\ s_reader = 0
    /\ s_delivered = 0
    /\ s_int = FALSE
    /\ s_log = ""

---------------------------------------------------------------------------
(* Text helpers: Python's str operations.                                  *)

\* Characters str.strip() removes (str.isspace).
Whitespace == {" ", "\n", "\t"}

\* s[a:b] for 0 <= a, with Python's clamping of b.
Slice(s, a, b) ==
    LET hi == IF b > Len(s) THEN Len(s) ELSE b
    IN  IF a >= hi THEN <<>> ELSE SubSeq(s, a + 1, hi)

\* s[a:]
SliceFrom(s, a) == Slice(s, a, Len(s))

\* s.rfind(ch, lo, hi): the highest 0-based index i, lo <= i < hi, with
\* s[i] = ch, or -1.
RFind(s, ch, lo, hi) ==
    LET top  == IF hi > Len(s) THEN Len(s) ELSE hi
        hits == {i \in lo .. (top - 1) : s[i + 1] = ch}
    IN  IF hits = {} THEN -1
        ELSE CHOOSE i \in hits : \A j \in hits : j <= i

\* s.strip(): leading and trailing whitespace removed.
Strip(s) ==
    LET keep == {i \in 1 .. Len(s) : s[i] \notin Whitespace}
    IN  IF keep = {} THEN <<>>
        ELSE LET first == CHOOSE i \in keep : \A j \in keep : i <= j
                 last  == CHOOSE i \in keep : \A j \in keep : j <= i
             IN  SubSeq(s, first, last)

\* The literal "..." of split_message.
Ellipsis == <<".", ".", ".">>

---------------------------------------------------------------------------
(* split_message, src/live.py:15-28.                                       *)

\* Mutant of SplitIndex: the margin of 5 for the ellipsis is forgotten.
SplitIndexNoMargin(cur, L) ==
    LET split_index == RFind(cur, " ", 0, L)
    IN  IF split_index = -1 THEN L ELSE split_index

\* Lines 20-22: the index the loop body splits at.
SplitIndex(cur, L) ==
    LET split_index == RFind(cur, " ", 0, L - 5)
    IN  IF split_index = -1 THEN L - 5 ELSE split_index

\* Mutant of SplitPart: the slice ends one character early.
SplitPartShort(cur, split_index) == Slice(cur, 0, split_index - 1) \o Ellipsis

\* Line 24: the chunk appended to parts.
SplitPart(cur, split_index) == Slice(cur, 0, split_index) \o Ellipsis

\* Mutant of SplitRest: the remainder is not stripped, so the space split
\* at stays in front of it.
SplitRestNoStrip(cur, split_index) == Ellipsis \o SliceFrom(cur, split_index)

\* Line 25: the new current_part.
SplitRest(cur, split_index) == Ellipsis \o Strip(SliceFrom(cur, split_index))

\* The function split_message as a whole: the loop run to its end.
RECURSIVE SplitLoopFrom(_, _, _)
SplitLoopFrom(acc, cur, L) ==
    IF Len(cur) > L
    THEN SplitLoopFrom(Append(acc, SplitPart(cur, SplitIndex(cur, L))),
                       SplitRest(cur, SplitIndex(cur, L)), L)
    ELSE Append(acc, cur)

split_message(t, L) == SplitLoopFrom(<<>>, t, L)

---------------------------------------------------------------------------
(* Formatting: format_message (src/live.py:53-90) and                      *)
(* format_bluesky_message (src/hello.py:78-100).                           *)

\* src/live.py:11
F1_HASHTAGS ==
    <<"#", "F", "1", " ", "#", "F", "o", "r", "m", "u", "l", "a", "1", " ", "#", "A", "b", "u", "D", "h", "a", "b", "i", "G", "P">>
\* src/live.py:12
MAX_CHARS == 300
\* src/hello.py:12
HASHTAGS ==
    <<"#", "f", "1", " ", "#", "f", "o", "r", "m", "u", "l", "a", "1", " ", "#", "l", "i", "v", "e", " ", "#", "A", "u", "s", "G", "P", " ", "#", "A", "u", "s", "t", "r", "a", "l", "i", "a", "n", "G", "P">>

\* src/live.py:56-67
category_emoji ==
    [Other |-> <<"U+2139", "U+FE0F">>,
     Flag |-> <<"U+1F6A9">>,
     Drs |-> <<"U+1F4E1">>,
     SafetyCar |-> <<"U+1F6A8">>,
     Incident |-> <<"U+1F4A5">>,
     Track |-> <<"U+1F6E3", "U+FE0F">>,
     Weather |-> <<"U+1F326", "U+FE0F">>,
     Technical |-> <<"U+1F527">>,
     Timing |-> <<"U+23F1", "U+FE0F">>,
     Stewards |-> <<"U+1F468", "U+200D", "U+2696", "U+FE0F">>]

\* src/live.py:73-79
flag_emoji ==
    [GREEN |-> <<"U+1F7E2">>,
     RED |-> <<"U+1F534">>,
     YELLOW |-> <<"U+1F7E1">>,
     CHEQUERED |-> <<"U+1F3C1">>,
     CLEAR |-> <<"U+26AA">>]

\* src/hello.py:15-27
FLAG_EMOJIS ==
    [GREEN |-> <<"U+1F7E2">>,
     RED |-> <<"U+1F534">>,
     YELLOW |-> <<"U+1F7E1">>,
     DOUBLE_YELLOW |-> <<"U+1F7E1", "U+1F7E1">>,
     BLUE |-> <<"U+1F535">>,
     CHEQUERED |-> <<"U+1F3C1">>,
     BLACK |-> <<"U+26AB">>,
     BLACK_AND_ORANGE |-> <<"U+26AB", "U+1F7E7">>,
     BLACK_AND_WHITE |-> <<"U+26AB", "U+26AA">>,
     WHITE |-> <<"U+26AA">>,
     CLEAR |-> <<"U+26AA">>]

\* src/hello.py:29-43
CATEGORY_EMOJIS ==
    [Other |-> <<"U+2139", "U+FE0F">>,
     Flag |-> <<"U+1F6A9">>,
     Drs |-> <<"U+1F4E1">>,
     SafetyCar |-> <<"U+1F6A8">>,
     Incident |-> <<"U+1F4A5">>,
     Track |-> <<"U+1F6E3", "U+FE0F">>,
     Weather |-> <<"U+1F326", "U+FE0F">>,
     Technical |-> <<"U+1F527">>,
     Timing |-> <<"U+23F1", "U+FE0F">>,
     Stewards |-> <<"U+1F468", "U+200D", "U+2696", "U+FE0F">>,
     SECTOR |-> <<"U+1F4CD">>,
     TRACK_STATUS |-> <<"U+1F3C1">>,
     WARNING |-> <<"U+26A0", "U+FE0F">>]

\* dict.get(key, default)
Get(table, key, default) ==
    IF key \in DOMAIN table THEN table[key] ELSE default

\* A time of day is <<hour, minute, second>>; strftime("%H:%M:%S UTC").
Digits == <<"0", "1", "2", "3", "4", "5", "6", "7", "8", "9">>
TwoDigits(n) == <<Digits[(n \div 10) + 1], Digits[(n % 10) + 1]>>
strftime(t) ==
    TwoDigits(t[1]) \o <<":">> \o TwoDigits(t[2]) \o <<":">> \o
    TwoDigits(t[3]) \o <<" ", "U", "T", "C">>

\* Category, flag and scope values are strings of the data source, kept
\* whole; Python's truth of an optional string.
Truthy(v) == v # None /\ v # ""

\* The characters of the scope values the data source sends.
ScopeText ==
    [Track |-> <<"T", "r", "a", "c", "k">>,
     Sector |-> <<"S", "e", "c", "t", "o", "r">>,
     Driver |-> <<"D", "r", "i", "v", "e", "r">>]

\* src/live.py:54-80
base_text(msg) ==
    LET time_str  == strftime(msg.Time)
        cat_emoji == Get(category_emoji, msg.Category, <<"U+2139", "U+FE0F">>)
        plain     == cat_emoji \o <<" ", "F", "1", " ", "R", "a", "c", "e", " ", "C", "o", "n", "t", "r", "o", "l", " ", "(">> \o time_str \o
                     <<")", ":", "\n">> \o msg.Message
    IN  IF Truthy(msg.Flag)
        THEN Get(flag_emoji, msg.Flag, <<>>) \o <<" ">> \o plain
        ELSE plain

\* src/live.py:82
full_text(msg) == base_text(msg) \o <<"\n", "\n">> \o F1_HASHTAGS

\* src/live.py:84-90
format_message(msg) ==
    IF Len(full_text(msg)) <= MAX_CHARS
    THEN <<full_text(msg)>>
    ELSE LET split == split_message(base_text(msg), MAX_CHARS)
             n     == Len(split)
         IN  [split EXCEPT ![n] = split[n] \o <<"\n", "\n">> \o F1_HASHTAGS]

\* src/hello.py:83-100, for the one-row frame monitor_f1_data builds.
format_bluesky_message(row) ==
    LET femoji   == Get(FLAG_EMOJIS, row.flag, <<>>)
        cemoji   == Get(CATEGORY_EMOJIS, row.category, <<"U+2139", "U+FE0F">>)
        time_str == strftime(row.timestamp)
        message  == femoji \o <<" ">> \o cemoji \o <<" ", "F", "1", " ", "R", "a", "c", "e", " ", "C", "o", "n", "t", "r", "o", "l", " ", "(">> \o
                    time_str \o <<")", ":", "\n">> \o row.message
        scoped   == IF Truthy(row.scope)
                    THEN message \o <<"\n", "S", "c", "o", "p", "e", ":", " ">> \o
                         ScopeText[row.scope]
                    ELSE message
    IN  scoped \o <<"\n", "\n">> \o HASHTAGS

---------------------------------------------------------------------------
(* Bounds of the split_message specification.                              *)

\* Longest input text.
MaxTextLen == 13
\* Largest limit; the limits are those above 10 up to MaxLimit.
MaxLimit == 11
\* Cap on the iterations of the while loop (the loop itself has none).
MaxParts == 8

Limits == {L \in 1 .. MaxLimit : L > 10}

\* Input texts: words of "a" and spaces, with at most one line break.
PlainTexts == UNION {[1 .. n -> {"a", " "}] : n \in 0 .. MaxTextLen}
Texts ==
    PlainTexts \cup
    {[i \in 1 .. Len(t) |-> IF i = k THEN "\n" ELSE t[i]] :
        t \in PlainTexts, k \in 1 .. MaxTextLen}

\* Lines 15-17: entry with the arguments bound.
InitSplit ==
    /\ FormatIdle
    /\ FacetIdle
    /\ PollIdle
    /\ StreamIdle
    /\ sm_text \in Texts
    /\ max_length \in Limits
    /\ parts = <<>>
    /\ current_part = sm_text
    /\ sm_pc = "loop"

\* Lines 19-25: one iteration of the while loop.
SplitLoop ==
    /\ sm_pc = "loop"
    /\ Len(current_part) > max_length
    /\ Len(parts) < MaxParts
    /\ LET split_index == SplitIndex(current_part, max_length)
       IN  /\ parts' = Append(parts, SplitPart(current_part, split_index))
           /\ current_part' = SplitRest(current_part, split_index)
    /\ UNCHANGED <<sm_text, max_length, sm_pc>>
    /\ UNCHANGED <<formatVars, facetVars, pollVars, streamVars>>

\* Lines 27-28: the loop condition is false; append and return.
SplitReturn ==
    /\ sm_pc = "loop"
    /\ Len(current_part) <= max_length
    /\ parts' = Append(parts, current_part)
    /\ sm_pc' = "done"
    /\ UNCHANGED <<sm_text, max_length, current_part>>
    /\ UNCHANGED <<formatVars, facetVars, pollVars, streamVars>>

NextSplit == SplitLoop \/ SplitReturn

\* The loop is sequential code: a step that can be taken is taken.
SpecSplit == InitSplit /\ [][NextSplit]_vars /\ WF_vars(NextSplit)

---------------------------------------------------------------------------
(* The formatting specification: both formatters applied to one message.   *)

\* Longest message text.
MaxMsgLen == 620
\* Length of the words of a message made of short words.
WordLen == 6

\* A text of n characters: words of w letters separated by single spaces
\* (one unbroken word when w >= n).
Words(n, w) == [i \in 1 .. n |-> IF i % (w + 1) = 0 THEN " " ELSE "a"]

\* Message texts: plain ones, and ones that already carry a hashtag string.
MessageTexts ==
    LET short == {Words(n, WordLen) : n \in 0 .. MaxMsgLen}
        long  == {Words(n, MaxMsgLen) : n \in 0 .. MaxMsgLen}
    IN  short \cup long
              \cup {m \o <<" ">> \o F1_HASHTAGS : m \in short}
              \cup {m \o <<" ">> \o HASHTAGS : m \in short}

\* Category, flag and scope combinations: mapped and unmapped values.
Styles ==
    {<<"Flag", None, None>>, <<"Stewards", "GREEN", "Track">>,
     <<"Pitlane", "PURPLE", None>>}

FormatInputs ==
    {[Time |-> <<13, 5, 9>>, Message |-> m, Category |-> st[1],
      Flag |-> st[2], Scope |-> st[3]] : m \in MessageTexts, st \in Styles}

\* The row of the one-row frame src/hello.py:158-168 builds from a message.
Row(msg) ==
    [message |-> msg.Message, category |-> msg.Category, flag |-> msg.Flag,
     scope |-> msg.Scope, timestamp |-> msg.Time]

InitFormat ==
    /\ SplitIdle
    /\ FacetIdle
    /\ PollIdle
    /\ StreamIdle
    /\ fm_msg \in FormatInputs
    /\ fm_parts = <<>>
    /\ fm_pc = "call"
    /\ fb_message = <<>>
    /\ fb_pc = "call"

\* src/live.py:53-90
FormatMessage ==
    /\ fm_pc = "call"
    /\ fm_parts' = format_message(fm_msg)
    /\ fm_pc' = "returned"
    /\ UNCHANGED <<fm_msg, fb_message, fb_pc>>
    /\ UNCHANGED <<splitVars, facetVars, pollVars, streamVars>>

\* src/hello.py:78-100
FormatBlueskyMessage ==
    /\ fb_pc = "call"
    /\ fb_message' = format_bluesky_message(Row(fm_msg))
    /\ fb_pc' = "returned"
    /\ UNCHANGED <<fm_msg, fm_parts, fm_pc>>
    /\ UNCHANGED <<splitVars, facetVars, pollVars, streamVars>>

NextFormat == FormatMessage \/ FormatBlueskyMessage

SpecFormat == InitFormat /\ [][NextFormat]_vars

---------------------------------------------------------------------------
(* Claims about split_message.                                             *)

\* C6: for any text and any limit L > 10, split_message terminates.  Every
\* step appends to parts, so no run cycles, and a call that has not
\* returned can step unless the iteration cap holds it.  The loop
\* terminates because (a) the cap is never reached and (b) the loop makes
\* progress: the first iteration lengthens current_part by at most 2 and
\* each later one shortens it by at least 2, which bounds the number of
\* iterations by the length of the text.
SplitTerminates ==
    sm_pc = "loop" =>
        /\ Len(parts) < MaxParts
        /\ Len(parts) >= 1 =>
               Len(current_part) + 2 * Len(parts) <= Len(sm_text) + 4

\* C6 witness: a text starting with a space (the first iteration splits at
\* index 0 and lengthens current_part) whose loop ran three times and returned.
SplitTerminatesWitness ==
    /\ sm_pc = "done"
    /\ Len(parts) >= 4
    /\ Len(sm_text) > 0 /\ sm_text[1] = " "

\* C7: every chunk split_message emits, with its ellipsis markers, has
\* length at most the limit L.
SplitChunksWithinLimit ==
    \A i \in 1 .. Len(parts) : Len(parts[i]) <= max_length

\* C7 witness: a returned split with a first, a continuation and a final
\* chunk, the continuation chunk as long as the code can make it.
SplitChunksWitness ==
    /\ sm_pc = "done"
    /\ Len(parts) >= 3
    /\ Len(parts[2]) = max_length - 2

\* Chunk i of ps without the markers split_message added to it: the
\* leading "..." of a continuation chunk, the trailing "..." of a non-final
\* chunk.
Unmarked(ps, i) ==
    LET c    == ps[i]
        from == IF i > 1 THEN 3 ELSE 0
        to   == IF i < Len(ps) THEN Len(c) - 3 ELSE Len(c)
    IN  Slice(c, from, to)

RECURSIVE RejoinUpTo(_, _)
RejoinUpTo(ps, n) ==
    IF n = 0 THEN <<>> ELSE RejoinUpTo(ps, n - 1) \o Unmarked(ps, n)

\* The chunks with their markers removed, concatenated in order.
Rejoin(ps) == RejoinUpTo(ps, Len(ps))

\* out is orig with some whitespace characters deleted and nothing else
\* changed.
RECURSIVE DropsOnlyWhitespace(_, _)
DropsOnlyWhitespace(orig, out) ==
    IF orig = <<>> THEN out = <<>>
    ELSE \/ /\ out # <<>>
            /\ Head(orig) = Head(out)
            /\ DropsOnlyWhitespace(Tail(orig), Tail(out))
         \/ /\ Head(orig) \in Whitespace
            /\ DropsOnlyWhitespace(Tail(orig), out)

\* C8 as stated: removing the added ellipsis markers and concatenating the
\* chunks reconstructs the original text exactly.
SplitReconstructsExactly ==
    sm_pc = "done" => Rejoin(parts) = sm_text

\* C8 as amended: the concatenation is the original text with only
\* whitespace deleted (the whitespace strip() removes at a split point and
\* at the end of the remainder); a text that is not split is returned as is.
SplitReconstructsUpToWhitespace ==
    sm_pc = "done" =>
        /\ DropsOnlyWhitespace(sm_text, Rejoin(parts))
        /\ Len(parts) = 1 => parts[1] = sm_text

\* C8 witness: a returned split at a space, whose concatenation lost it.
SplitReconstructsWitness ==
    /\ sm_pc = "done"
    /\ Len(parts) >= 3
    /\ \E i \in 1 .. Len(sm_text) : sm_text[i] = "a"
    /\ Len(Rejoin(parts)) < Len(sm_text)

---------------------------------------------------------------------------
(* Claims about the formatters.                                            *)

\* C5: every chunk format_message returns has length at most MAX_CHARS,
\* the final chunk with its hashtag suffix included.
FormatChunksWithinMaxChars ==
    fm_pc = "returned" =>
        \A i \in 1 .. Len(fm_parts) : Len(fm_parts[i]) <= MAX_CHARS

\* The number of places where pat occurs in s.
Occurrences(s, pat) ==
    Cardinality({i \in 1 .. (Len(s) - Len(pat) + 1) :
                     SubSeq(s, i, i + Len(pat) - 1) = pat})

EndsWith(s, pat) ==
    /\ Len(s) >= Len(pat)
    /\ SubSeq(s, Len(s) - Len(pat) + 1, Len(s)) = pat

RECURSIVE OccurrencesIn(_, _, _)
OccurrencesIn(ps, n, pat) ==
    IF n = 0 THEN 0
    ELSE OccurrencesIn(ps, n - 1, pat) + Occurrences(ps[n], pat)

\* C10: the formatted output of every message contains the fixed hashtag
\* string exactly once, at the end of the final chunk and in no other chunk,
\* also when the message text already contains the hashtag string.
FormatHashtagsExactlyOnce ==
    /\ fm_pc = "returned" =>
           /\ EndsWith(fm_parts[Len(fm_parts)], F1_HASHTAGS)
           /\ OccurrencesIn(fm_parts, Len(fm_parts), F1_HASHTAGS) = 1
    /\ fb_pc = "returned" =>
           /\ EndsWith(fb_message, HASHTAGS)
           /\ Occurrences(fb_message, HASHTAGS) = 1

---------------------------------------------------------------------------
(* create_hashtag_facets, src/hello.py:103-121.                            *)

\* Code points by the number of bytes of their UTF-8 encoding; every
\* other code point of the model is ASCII.
ThreeByte ==
    {"U+2139", "U+FE0F", "U+23F1", "U+200D", "U+2696", "U+26AA", "U+26AB",
     "U+26A0"}
FourByte ==
    {"U+1F6A9", "U+1F4E1", "U+1F6A8", "U+1F4A5", "U+1F6E3", "U+1F326",
     "U+1F527", "U+1F468", "U+1F7E2", "U+1F534", "U+1F7E1", "U+1F535",
     "U+1F3C1", "U+1F7E7", "U+1F4CD"}

RECURSIVE Utf8Len(_)
\* len(s.encode("utf-8"))
Utf8Len(s) ==
    IF s = <<>> THEN 0
    ELSE (IF Head(s) \in FourByte THEN 4
          ELSE IF Head(s) \in ThreeByte THEN 3 ELSE 1) + Utf8Len(Tail(s))

\* The 1-based positions where a whitespace-delimited token of t starts.
TokenStarts(t) ==
    {i \in 1 .. Len(t) :
        /\ t[i] \notin Whitespace
        /\ i = 1 \/ t[i - 1] \in Whitespace}

\* The token of t that starts at position i.
TokenAt(t, i) ==
    LET ends == {j \in i .. Len(t) : \A k \in i .. j : t[k] \notin Whitespace}
    IN  SubSeq(t, i, CHOOSE j \in ends : \A k \in ends : k <= j)

\* The start of the k-th token of t.
NthStart(t, k) ==
    CHOOSE i \in TokenStarts(t) :
        Cardinality({j \in TokenStarts(t) : j < i}) = k - 1

\* text.split(): the tokens, in order, without their positions.
split(t) ==
    [k \in 1 .. Cardinality(TokenStarts(t)) |-> TokenAt(t, NthStart(t, k))]

\* text.index(word): the 0-based index of the first place word occurs at.
index(t, word) ==
    LET hits == {i \in 0 .. (Len(t) - Len(word)) :
                     SubSeq(t, i + 1, i + Len(word)) = word}
    IN  CHOOSE i \in hits : \A j \in hits : i <= j

\* Lines 111-120: the facet the loop body appends for one word.
Facet(t, word) ==
    LET byte_start == Utf8Len(Slice(t, 0, index(t, word)))
        byte_end   == byte_start + Utf8Len(word)
    IN  [byteStart |-> byte_start, byteEnd |-> byte_end, tag |-> Tail(word)]

\* Lines 109-110: the words the loop appends a facet for.
startswith(word, ch) == Len(word) > 0 /\ word[1] = ch

create_hashtag_facets(t) ==
    LET tagged == SelectSeq(split(t), LAMBDA w : startswith(w, "#"))
    IN  [k \in 1 .. Len(tagged) |-> Facet(t, tagged[k])]

\* Longest text of the facet specification.
MaxFacetLen == 6

FacetTexts ==
    UNION {[1 .. n -> {"#", "a", " ", "U+1F6A9"}] : n \in 0 .. MaxFacetLen}

InitFacets ==
    /\ SplitIdle
    /\ FormatIdle
    /\ PollIdle
    /\ StreamIdle
    /\ hf_text \in FacetTexts
    /\ hf_facets = <<>>
    /\ hf_pc = "call"

CreateHashtagFacets ==
    /\ hf_pc = "call"
    /\ hf_facets' = create_hashtag_facets(hf_text)
    /\ hf_pc' = "returned"
    /\ UNCHANGED <<hf_text, splitVars, formatVars, pollVars, streamVars>>

NextFacets == CreateHashtagFacets

SpecFacets == InitFacets /\ [][NextFacets]_vars

\* The facets of the hashtag tokens of t, each at the byte offsets of its
\* own occurrence.
FacetsByOccurrence(t) ==
    LET starts == {i \in TokenStarts(t) : t[i] = "#"}
        nth(k) == CHOOSE i \in starts :
                      Cardinality({j \in starts : j < i}) = k - 1
    IN  [k \in 1 .. Cardinality(starts) |->
            LET i    == nth(k)
                word == TokenAt(t, i)
            IN  [byteStart |-> Utf8Len(SubSeq(t, 1, i - 1)),
                 byteEnd   |-> Utf8Len(SubSeq(t, 1, i - 1)) + Utf8Len(word),
                 tag       |-> Tail(word)]]

\* C9: create_hashtag_facets returns, for every whitespace-delimited token
\* beginning with '#', a facet at the UTF-8 byte offsets of that very
\* occurrence, tagged with the token without '#', also when a hashtag
\* occurs twice or its characters occur earlier inside another token.
FacetsAtOwnOccurrence ==
    hf_pc = "returned" => hf_facets = FacetsByOccurrence(hf_text)

---------------------------------------------------------------------------
(* Exceptions and the except clauses of the two programs.                  *)

\* The classes of each exception the model raises: the class itself and
\* its bases, as Python's except clauses match them.
ExceptionBases ==
    [URLError           |-> {"URLError", "OSError", "Exception",
                             "BaseException"},
     JSONDecodeError    |-> {"JSONDecodeError", "ValueError", "Exception",
                             "BaseException"},
     TimeoutError       |-> {"TimeoutError", "OSError", "Exception",
                             "BaseException"},
     UnicodeDecodeError |-> {"UnicodeDecodeError", "UnicodeError",
                             "ValueError", "Exception", "BaseException"},
     KeyboardInterrupt  |-> {"KeyboardInterrupt", "BaseException"}]

\* Mutant of Catches: a clause that catches whatever is raised.
CatchesAnything(clause, exc) == TRUE

\* Whether an except clause naming the classes of clause catches exc.
Catches(clause, exc) == clause \cap ExceptionBases[exc] # {}

\* src/hello.py:53
ExceptFetch == {"URLError", "JSONDecodeError"}

\* src/hello.py:129, src/live.py:120, src/live.py:139
ExceptException == {"Exception"}

\* src/hello.py:189, src/live.py:153
ExceptKeyboardInterrupt == {"KeyboardInterrupt"}

\* What urlopen, response.read, decode and json.loads raise at lines 51-52:
\* the URL cannot be opened, the body is no JSON, the read times out, the
\* body is no UTF-8.
FetchErrors ==
    {"URLError", "JSONDecodeError", "TimeoutError", "UnicodeDecodeError"}

---------------------------------------------------------------------------
(* The polling variant: monitor_f1_data, src/hello.py:133-176.             *)

\* Ticks of the loop a run is followed for.
MaxTicks == 3
\* Longest list a fetch returns.
MaxBatch == 2

\* The rows the data source serves.  The second differs from the first
\* in its category only, the third in its timestamp only.
PollRows ==
    {[message |-> <<"S", "C">>, category |-> "SafetyCar", flag |-> None,
      scope |-> None, timestamp |-> <<13, 5, 9>>],
     [message |-> <<"S", "C">>, category |-> "Flag", flag |-> None,
      scope |-> None, timestamp |-> <<13, 5, 9>>],
     [message |-> <<"S", "C">>, category |-> "SafetyCar", flag |-> None,
      scope |-> None, timestamp |-> <<13, 6, 0>>]}

PollBatches == UNION {[1 .. n -> PollRows] : n \in 0 .. MaxBatch}

\* Lines 148-153: the identity tuple of a row.
Identity(row) ==
    <<row.message, row.category, row.flag, row.scope, row.timestamp>>

\* Lines 159-167: the row rebuilt from an identity tuple.
RowOf(id) ==
    [message |-> id[1], category |-> id[2], flag |-> id[3], scope |-> id[4],
     timestamp |-> id[5]]

PollIdentities == {Identity(r) : r \in PollRows}

\* Lines 148-153: the set of the identities of the rows of a list.
CurrentMessages(rows) == {Identity(rows[i]) : i \in 1 .. Len(rows)}

\* Mutant of NewMessages: the seen set is not subtracted.
NewMessagesNoDiff(current, previous) == current

\* Line 154
NewMessages(current, previous) == current \ previous

\* Lines 126-128: the send_post call post_to_bluesky makes for a message.
SendPostCall(message) ==
    [text |-> message, facets |-> create_hashtag_facets(message)]

\* Lines 157-170: the call made for each identity of the data source.
PollCall ==
    [id \in PollIdentities |->
        SendPostCall(format_bluesky_message(RowOf(id)))]

InitPoll ==
    /\ SplitIdle
    /\ FormatIdle
    /\ FacetIdle
    /\ StreamIdle
    /\ previous_messages = {}
    /\ data = NoData
    /\ current_messages = {}
    /\ new_messages = {}
    /\ p_pc = "fetch"
    /\ p_tick = 1
    /\ p_prev_data = NoData
    /\ p_ever = {}
    /\ p_tick_new = {}
    /\ p_submits = [id \in PollIdentities |-> 0]
    /\ p_posts = {}
    /\ p_last = <<>>
    /\ p_last_batch = {}
    /\ p_err = None
    /\ p_int = FALSE
    /\ p_log = ""

\* Mutant of SkippedTick: a skipped tick forgets what was seen.
SkippedTickForgets(previous) == {}

\* Lines 142, 146, 175: a tick without data assigns nothing to
\* previous_messages.
SkippedTick(previous) == previous

\* Lines 50-55, 141-142, 175: urlopen or the decoding raises an error the
\* except clause of fetch_f1_data catches; None is returned and the tick
\* is skipped.
PollFetchNone ==
    /\ p_pc = "fetch"
    /\ \E e \in FetchErrors :
          /\ Catches(ExceptFetch, e)
          /\ p_err' = e
    /\ data' = NoData
    /\ previous_messages' = SkippedTick(previous_messages)
    /\ p_tick_new' = {}
    /\ p_pc' = "sleep"
    /\ UNCHANGED <<current_messages, new_messages, p_tick, p_prev_data,
                   p_ever, p_submits, p_posts, p_last, p_last_batch, p_int,
                   p_log>>
    /\ UNCHANGED <<splitVars, formatVars, facetVars, streamVars>>

\* Lines 50-53, 141, 188-190: an error the except clause of fetch_f1_data
\* does not catch leaves fetch_f1_data and monitor_f1_data; the clause of
\* __main__ does not catch it either and the process ends with it.
PollFetchRaises ==
    /\ p_pc = "fetch"
    /\ \E e \in FetchErrors :
          /\ ~Catches(ExceptFetch, e)
          /\ ~Catches(ExceptKeyboardInterrupt, e)
          /\ p_err' = e
    /\ p_pc' = "crashed"
    /\ UNCHANGED <<previous_messages, data, current_messages, new_messages,
                   p_tick, p_prev_data, p_ever, p_tick_new, p_submits,
                   p_posts, p_last, p_last_batch, p_int, p_log>>
    /\ UNCHANGED <<splitVars, formatVars, facetVars, streamVars>>

\* Lines 141-154: a list was fetched.  An empty one is falsy and the tick
\* is skipped; otherwise the new messages are worked out.
PollFetchData ==
    /\ p_pc = "fetch"
    /\ \E rows \in PollBatches :
          /\ data' = Fetched(rows)
          /\ p_ever' = p_ever \cup CurrentMessages(rows)
          /\ IF rows = <<>>
             THEN /\ p_pc' = "sleep"
                  /\ previous_messages' = SkippedTick(previous_messages)
                  /\ UNCHANGED <<current_messages, new_messages>>
             ELSE /\ current_messages' = CurrentMessages(rows)
                  /\ new_messages' =
                         NewMessages(CurrentMessages(rows), previous_messages)
                  /\ p_pc' = "post"
                  /\ UNCHANGED previous_messages
    /\ p_tick_new' = {}
    /\ UNCHANGED <<p_tick, p_prev_data, p_submits, p_posts, p_last,
                   p_last_batch, p_err, p_int, p_log>>
    /\ UNCHANGED <<splitVars, formatVars, facetVars, streamVars>>

\* Lines 156-171, 124-130: one pass of the for loop.  The message is
\* formatted and handed to send_post, which accepts it or raises; the
\* except clause of post_to_bluesky catches the error and the loop goes on.
PollPost ==
    /\ p_pc = "post"
    /\ \E message \in new_messages, accepted \in BOOLEAN :
          /\ p_last' = <<PollCall[message]>>
          /\ p_submits' = [p_submits EXCEPT ![message] = @ + 1]
          /\ p_posts' = IF accepted THEN p_posts \cup {message} ELSE p_posts
          /\ p_tick_new' = p_tick_new \cup {message}
          /\ new_messages' = new_messages \ {message}
    /\ UNCHANGED <<previous_messages, data, current_messages, p_pc, p_tick,
                   p_prev_data, p_ever, p_last_batch, p_err, p_int, p_log>>
    /\ UNCHANGED <<splitVars, formatVars, facetVars, streamVars>>

\* Line 173: the for loop is over.
PollCommit ==
    /\ p_pc = "post"
    /\ new_messages = {}
    /\ previous_messages' = current_messages
    /\ p_pc' = "sleep"
    /\ UNCHANGED <<data, current_messages, new_messages, p_tick, p_prev_data,
                   p_ever, p_tick_new, p_submits, p_posts, p_last,
                   p_last_batch, p_err, p_int, p_log>>
    /\ UNCHANGED <<splitVars, formatVars, facetVars, streamVars>>

\* Lines 175-176, 140: the sleep, then the next tick.
PollSleep ==
    /\ p_pc = "sleep"
    /\ p_tick < MaxTicks
    /\ p_tick' = p_tick + 1
    /\ p_prev_data' = data
    /\ p_last_batch' = IF data.ok /\ data.rows # <<>>
                       THEN CurrentMessages(data.rows)
                       ELSE p_last_batch
    /\ p_pc' = "fetch"
    /\ UNCHANGED <<previous_messages, data, current_messages, new_messages,
                   p_ever, p_tick_new, p_submits, p_posts, p_last, p_err,
                   p_int, p_log>>
    /\ UNCHANGED <<splitVars, formatVars, facetVars, streamVars>>

\* A KeyboardInterrupt arrives while the loop is at p_pc.  During the fetch
\* it passes the except clause of fetch_f1_data (line 53), during a post
\* that of post_to_bluesky (line 129); the clause of __main__ (lines
\* 189-190) catches it, prints the stopping line and the process exits.
PollInterrupt ==
    /\ p_pc \in {"fetch", "post", "sleep"}
    /\ ~p_int
    /\ p_int' = TRUE
    /\ IF p_pc = "fetch" /\ Catches(ExceptFetch, "KeyboardInterrupt")
       THEN /\ data' = NoData
            /\ p_pc' = "sleep"
            /\ UNCHANGED p_log
       ELSE IF p_pc = "post" /\ Catches(ExceptException, "KeyboardInterrupt")
       THEN UNCHANGED <<data, p_pc, p_log>>
       ELSE IF Catches(ExceptKeyboardInterrupt, "KeyboardInterrupt")
       THEN /\ p_pc' = "exit"
            /\ p_log' = "Stopping F1 Live Data Monitor..."
            /\ UNCHANGED data
       ELSE /\ p_pc' = "crashed"
            /\ UNCHANGED <<data, p_log>>
    /\ UNCHANGED <<previous_messages, current_messages, new_messages, p_tick,
                   p_prev_data, p_ever, p_tick_new, p_submits, p_posts,
                   p_last, p_last_batch, p_err>>
    /\ UNCHANGED <<splitVars, formatVars, facetVars, streamVars>>

NextPoll ==
    \/ PollFetchNone
    \/ PollFetchRaises
    \/ PollFetchData
    \/ PollPost
    \/ PollCommit
    \/ PollSleep
    \/ PollInterrupt

SpecPoll == InitPoll /\ [][NextPoll]_vars

---------------------------------------------------------------------------
(* Claims about the polling variant.                                       *)

\* C1: over any sequence of fetched batches, every identity that appears
\* in some fetched batch is submitted to the publisher exactly once: never
\* twice, and once by the end of the tick that fetched it.
PollSubmittedExactlyOnce ==
    /\ \A id \in PollIdentities : p_submits[id] <= 1
    /\ p_pc = "sleep" => \A id \in p_ever : p_submits[id] = 1

\* C3: when the first two ticks fetch batches B1 and B2 with B2 a superset
\* of B1, the set of messages submitted on the second tick is exactly
\* B2 minus B1 (nothing when B2 = B1), and no message of B2 has been
\* submitted twice.
PollSecondTickSubmitsDifference ==
    (/\ p_pc = "sleep"
     /\ p_tick = 2
     /\ p_prev_data.ok
     /\ data.ok
     /\ CurrentMessages(p_prev_data.rows) \subseteq CurrentMessages(data.rows))
    => /\ p_tick_new =
              CurrentMessages(data.rows) \ CurrentMessages(p_prev_data.rows)
       /\ \A id \in CurrentMessages(data.rows) : p_submits[id] = 1

\* C3 witness: the second tick over, its batch a proper superset of the
\* first tick's non-empty batch, the difference submitted.
PollSecondTickWitness ==
    /\ p_pc = "sleep"
    /\ p_tick = 2
    /\ p_prev_data.ok
    /\ data.ok
    /\ CurrentMessages(p_prev_data.rows) # {}
    /\ CurrentMessages(p_prev_data.rows) \subseteq CurrentMessages(data.rows)
    /\ CurrentMessages(p_prev_data.rows) # CurrentMessages(data.rows)
    /\ p_tick_new # {}

\* The polling half of C4: at the end of a tick every identity of its batch
\* has been submitted, whatever else the batch holds.
PollDistinctRowsAllSubmitted ==
    (p_pc = "sleep" /\ data.ok) =>
        \A id \in CurrentMessages(data.rows) : p_submits[id] >= 1

\* C19: a tick whose fetch failed or returned an empty list goes from the
\* fetch straight to the sleep: no send_post call is made and
\* previous_messages is left as it was.  So on a tick that fetched a batch
\* right after a skipped tick, no message of the last batch fetched before
\* is handed to send_post.
PollSkippedTickKeepsSeen ==
    /\ [][(p_pc = "fetch" /\ p_pc' = "sleep") =>
              /\ previous_messages' = previous_messages
              /\ p_submits' = p_submits]_vars
    /\ []((/\ p_pc \in {"post", "sleep"}
           /\ data.ok /\ data.rows # <<>>
           /\ p_tick > 1
           /\ ~p_prev_data.ok \/ p_prev_data.rows = <<>>)
          => p_tick_new \cap p_last_batch = {})

\* C19 witness: the first tick fetched a batch, the second was skipped, and
\* the third fetched a batch holding a message of the first and a new one;
\* the new one was submitted.
PollSkippedTickWitness ==
    /\ p_tick = 3
    /\ p_pc = "sleep"
    /\ data.ok /\ data.rows # <<>>
    /\ ~p_prev_data.ok \/ p_prev_data.rows = <<>>
    /\ p_last_batch \cap CurrentMessages(data.rows) # {}
    /\ p_tick_new # {}
    /\ \A id \in p_last_batch : p_submits[id] = 1

---------------------------------------------------------------------------
(* The streaming variant: process_messages and monitor_live_race_control,  *)
(* src/live.py:93-143.                                                     *)

\* Loop iterations a run is followed for.
MaxStreamTicks == 3
\* Longest list client.get_data returns.
MaxStreamBatch == 2
\* Messages client.get_data returns in a run, all lists together.
MaxDelivered == 2

\* The messages the data source serves, by name.  flagged differs from
\* plain in category and flag only; long formats into three parts; undated
\* has a Utc value that is no ISO timestamp.
StreamMsg ==
    [plain   |-> [Utc |-> <<"2", "0", "2", "4", "-", "1", "2", "-", "0", "8", "T", "1", "3", ":", "0", "5", ":", "0", "9", "Z">>,
                  Message |-> <<"S", "C">>, Category |-> "SafetyCar",
                  Flag |-> None],
     flagged |-> [Utc |-> <<"2", "0", "2", "4", "-", "1", "2", "-", "0", "8", "T", "1", "3", ":", "0", "5", ":", "0", "9", "Z">>,
                  Message |-> <<"S", "C">>, Category |-> "Flag",
                  Flag |-> "YELLOW"],
     long    |-> [Utc |-> <<"2", "0", "2", "4", "-", "1", "2", "-", "0", "8", "T", "1", "3", ":", "0", "6", ":", "0", "0", "Z">>,
                  Message |-> Words(2 * MAX_CHARS, WordLen),
                  Category |-> "Stewards", Flag |-> None],
     undated |-> [Utc |-> <<"n", "/", "a">>,
                  Message |-> <<"S", "C">>, Category |-> "Other",
                  Flag |-> None]]

StreamNames == DOMAIN StreamMsg

StreamBatches == UNION {[1 .. n -> StreamNames] : n \in 0 .. MaxStreamBatch}

\* Line 95
msg_id(msg) == msg.Utc \o <<"_">> \o msg.Message

\* str.replace("Z", "+00:00")
RECURSIVE ReplaceZ(_)
ReplaceZ(s) ==
    IF s = <<>> THEN <<>>
    ELSE (IF Head(s) = "Z" THEN <<"+", "0", "0", ":", "0", "0">>
          ELSE <<Head(s)>>) \o ReplaceZ(Tail(s))

IsDigit(c) == \E d \in 1 .. 10 : Digits[d] = c
DigitVal(c) == (CHOOSE d \in 1 .. 10 : Digits[d] = c) - 1

\* Whether datetime.fromisoformat accepts s, for the shapes the data source
\* sends: YYYY-MM-DDTHH:MM:SS+00:00.
IsIsoFormat(s) ==
    /\ Len(s) = 25
    /\ \A i \in {1, 2, 3, 4, 6, 7, 9, 10, 12, 13, 15, 16, 18, 19} :
           IsDigit(s[i])
    /\ s[5] = "-" /\ s[8] = "-" /\ s[11] = "T"
    /\ s[14] = ":" /\ s[17] = ":"
    /\ SubSeq(s, 20, 25) = <<"+", "0", "0", ":", "0", "0">>

\* The time of day of datetime.fromisoformat(s).
fromisoformat(s) ==
    <<10 * DigitVal(s[12]) + DigitVal(s[13]),
      10 * DigitVal(s[15]) + DigitVal(s[16]),
      10 * DigitVal(s[18]) + DigitVal(s[19])>>

\* Lines 99-104
msg_dict(msg) ==
    [Time |-> fromisoformat(ReplaceZ(msg.Utc)), Message |-> msg.Message,
     Flag |-> msg.Flag, Category |-> msg.Category]

\* Lines 99-106 raise for a message (caught at line 120).
FormatRaises(name) == ~IsIsoFormat(ReplaceZ(StreamMsg[name].Utc))

\* Line 106: message_parts of each message that formats.
MessageParts ==
    [name \in {n \in StreamNames : ~FormatRaises(n)} |->
        format_message(msg_dict(StreamMsg[name]))]

MsgId == [name \in StreamNames |-> msg_id(StreamMsg[name])]

\* The parts there are to post: message and part number.
StreamChunks ==
    UNION {{<<name, k>> : k \in 1 .. Len(MessageParts[name])} :
              name \in DOMAIN MessageParts}

InitStream ==
    /\ SplitIdle
    /\ FormatIdle
    /\ FacetIdle
    /\ PollIdle
    /\ client = 1
    /\ bsky = "session"
    /\ processed_messages = {}
    /\ messages = <<>>
    /\ s_i = 0
    /\ message_parts = <<>>
    /\ s_k = 0
    /\ parent = 0
    /\ s_pc = "get_data"
    /\ s_tick = 1
    /\ s_attempts = [c \in StreamChunks |-> 0]
    /\ s_failed = {}
    /\ s_posts = {}
    /\ s_last = <<>>
    /\ s_tick_tried = {}
    /\ s_reader = 0
    /\ s_delivered = 0
    /\ s_int = FALSE
    /\ s_log = ""

\* Mutant of create_signalr_client: the client in use is handed back.
SameClient(c) == c

\* Lines 38-44: a new SignalRClient; clients are told apart by the number
\* of constructions so far.
create_signalr_client(c) == c + 1

\* Mutant of ReplyTo: every part is sent as a top-level post.
ReplyToNothing(k, last) == 0

\* Lines 109, 115: the reply_to of the send_post call for part k; 0 stands
\* for a call without reply_to, a top-level post.
ReplyTo(k, last) == IF k = 1 THEN 0 ELSE last

\* Lines 109, 115: the send_post call for a part.  No facets are passed,
\* so the post carries none.
StreamSendPostCall(text, k, last) ==
    [text |-> text, reply_to |-> ReplyTo(k, last), facets |-> <<>>]

\* Mutant of AfterError: an error in one message ends the for loop.
AfterErrorReturn(i, n) == n + 1

\* Lines 120-121, 94: after the except clause the for loop takes the next
\* message; i is the position of the message, n the length of the list.
AfterError(i, n) == i + 1

\* Mutant of ProcessedAfterError: the id is recorded although the message
\* failed.
ProcessedAfterErrorAdds(done, id) == done \cup {id}

\* Lines 118-121: the except clause is reached before line 118; the id is
\* not recorded.
ProcessedAfterError(done, id) == done

\* Mutant of ProcessedAfterReconnect: the handler starts a new set.
ProcessedAfterReconnectEmpty(done) == {}

\* Lines 139-143: the handler assigns nothing to processed_messages.
ProcessedAfterReconnect(done) == done

\* Line 134 raises: the error is caught at line 139.
StreamGetDataRaises ==
    /\ s_pc = "get_data"
    /\ s_reader' = client
    /\ s_pc' = "reconnect"
    /\ UNCHANGED <<client, bsky, processed_messages, messages, s_i,
                   message_parts, s_k, parent, s_tick, s_attempts, s_failed,
                   s_posts, s_last, s_tick_tried, s_delivered,
                   s_int, s_log>>
    /\ UNCHANGED <<splitVars, formatVars, facetVars, pollVars>>

\* Lines 134-136: get_data returns a list; process_messages is entered
\* when it is not empty.
StreamGetData ==
    /\ s_pc = "get_data"
    /\ \E batch \in StreamBatches :
          /\ s_delivered + Len(batch) <= MaxDelivered
          /\ s_delivered' = s_delivered + Len(batch)
          /\ messages' = batch
          /\ IF batch = <<>>
             THEN s_pc' = "sleep" /\ s_i' = 0
             ELSE s_pc' = "for" /\ s_i' = 1
    /\ s_reader' = client
    /\ s_tick_tried' = {}
    /\ UNCHANGED <<client, bsky, processed_messages, message_parts, s_k,
                   parent, s_tick, s_attempts, s_failed, s_posts, s_last,
                   s_int, s_log>>
    /\ UNCHANGED <<splitVars, formatVars, facetVars, pollVars>>

\* Lines 94-97: the message's id is in processed_messages.
StreamSkip ==
    /\ s_pc = "for"
    /\ s_i <= Len(messages)
    /\ MsgId[messages[s_i]] \in processed_messages
    /\ s_i' = s_i + 1
    /\ UNCHANGED <<client, bsky, processed_messages, messages, message_parts,
                   s_k, parent, s_pc, s_tick, s_attempts, s_failed, s_posts,
                   s_last, s_tick_tried, s_reader, s_delivered,
                   s_int, s_log>>
    /\ UNCHANGED <<splitVars, formatVars, facetVars, pollVars>>

\* Lines 97-106: a message not yet processed is formatted.
StreamFormat ==
    /\ s_pc = "for"
    /\ s_i <= Len(messages)
    /\ MsgId[messages[s_i]] \notin processed_messages
    /\ ~FormatRaises(messages[s_i])
    /\ message_parts' = MessageParts[messages[s_i]]
    /\ s_k' = 1
    /\ s_pc' = "send"
    /\ UNCHANGED <<client, bsky, processed_messages, messages, s_i, parent,
                   s_tick, s_attempts, s_failed, s_posts, s_last,
                   s_tick_tried, s_reader, s_delivered, s_int, s_log>>
    /\ UNCHANGED <<splitVars, formatVars, facetVars, pollVars>>

\* Lines 97-106, 120-121: formatting raises; the error is logged and the
\* loop goes on to the next message.
StreamFormatRaises ==
    /\ s_pc = "for"
    /\ s_i <= Len(messages)
    /\ MsgId[messages[s_i]] \notin processed_messages
    /\ FormatRaises(messages[s_i])
    /\ processed_messages' =
           ProcessedAfterError(processed_messages, MsgId[messages[s_i]])
    /\ s_i' = AfterError(s_i, Len(messages))
    /\ UNCHANGED <<client, bsky, messages, message_parts, s_k, parent, s_pc,
                   s_tick, s_attempts, s_failed, s_posts, s_last,
                   s_tick_tried, s_reader, s_delivered, s_int, s_log>>
    /\ UNCHANGED <<splitVars, formatVars, facetVars, pollVars>>

\* Mutant of MarkProcessed: the id is not recorded.
MarkProcessedNever(done, id) == done

\* Line 118
MarkProcessed(done, id) == done \cup {id}

\* Lines 109-118: one send_post call.  The first part is a top-level post,
\* a later part a reply to parent.  The service accepts it and returns its
\* handle, or the call raises (lines 120-121: logged, next message).  After
\* the last part the id is added to processed_messages.
StreamSendPost ==
    /\ s_pc = "send"
    /\ LET name == messages[s_i]
           call == StreamSendPostCall(message_parts[s_k], s_k, parent)
       IN  /\ s_attempts' = [s_attempts EXCEPT ![<<name, s_k>>] = @ + 1]
           /\ s_last' = <<call>>
           /\ s_tick_tried' = s_tick_tried \cup {name}
           /\ \E accepted \in BOOLEAN :
                 IF accepted
                 THEN LET handle == Cardinality(s_posts) + 1
                      IN  /\ s_posts' = s_posts \cup
                                {[handle |-> handle, name |-> name,
                                  part |-> s_k,
                                  reply_to |-> call.reply_to,
                                  tick |-> s_tick]}
                          /\ parent' = handle
                          /\ IF s_k = Len(message_parts)
                             THEN /\ processed_messages' =
                                         MarkProcessed(processed_messages,
                                                       MsgId[name])
                                  /\ s_i' = s_i + 1
                                  /\ s_pc' = "for"
                                  /\ UNCHANGED s_k
                             ELSE /\ s_k' = s_k + 1
                                  /\ UNCHANGED <<processed_messages, s_i,
                                                 s_pc>>
                          /\ UNCHANGED s_failed
                 ELSE /\ s_failed' = s_failed \cup {name}
                      /\ processed_messages' =
                             ProcessedAfterError(processed_messages,
                                                 MsgId[name])
                      /\ s_i' = AfterError(s_i, Len(messages))
                      /\ s_pc' = "for"
                      /\ UNCHANGED <<s_k, parent, s_posts>>
    /\ UNCHANGED <<client, bsky, messages, message_parts, s_tick, s_reader,
                   s_delivered,
                   s_int, s_log>>
    /\ UNCHANGED <<splitVars, formatVars, facetVars, pollVars>>

\* Lines 94, 136-137: the for loop is over; process_messages returns.
StreamProcessed ==
    /\ s_pc = "for"
    /\ s_i > Len(messages)
    /\ s_pc' = "sleep"
    /\ UNCHANGED <<client, bsky, processed_messages, messages, s_i,
                   message_parts, s_k, parent, s_tick, s_attempts, s_failed,
                   s_posts, s_last, s_tick_tried, s_reader, s_delivered,
                   s_int, s_log>>
    /\ UNCHANGED <<splitVars, formatVars, facetVars, pollVars>>

\* Lines 137, 132: the sleep, then the next iteration.
StreamSleep ==
    /\ s_pc = "sleep"
    /\ s_tick < MaxStreamTicks
    /\ s_tick' = s_tick + 1
    /\ s_pc' = "get_data"
    /\ UNCHANGED <<client, bsky, processed_messages, messages, s_i,
                   message_parts, s_k, parent, s_attempts, s_failed, s_posts,
                   s_last, s_tick_tried, s_reader, s_delivered,
                   s_int, s_log>>
    /\ UNCHANGED <<splitVars, formatVars, facetVars, pollVars>>

\* Lines 139-143, 132: the handler logs the error, builds a new client and
\* sleeps 5 seconds; then the next iteration.
StreamReconnect ==
    /\ s_pc = "reconnect"
    /\ s_tick < MaxStreamTicks
    /\ client' = create_signalr_client(client)
    /\ processed_messages' = ProcessedAfterReconnect(processed_messages)
    /\ s_tick' = s_tick + 1
    /\ s_pc' = "get_data"
    /\ UNCHANGED <<bsky, messages, s_i, message_parts, s_k, parent,
                   s_attempts, s_failed, s_posts, s_last, s_tick_tried,
                   s_reader, s_delivered,
                   s_int, s_log>>
    /\ UNCHANGED <<splitVars, formatVars, facetVars, pollVars>>

\* A KeyboardInterrupt arrives while the loop is at s_pc.  During a
\* send_post call it passes the except clause of process_messages (line
\* 120); anywhere in the try of lines 133-137 it passes the clause of line
\* 139, and inside that handler no clause encloses it.  The clause of
\* __main__ (lines 153-154) catches it and logs the stopping line, the
\* finally clause (lines 158-159) logs the last line and the process exits.
StreamInterrupt ==
    /\ s_pc \in {"get_data", "for", "send", "sleep", "reconnect"}
    /\ ~s_int
    /\ s_int' = TRUE
    /\ IF s_pc = "send" /\ Catches(ExceptException, "KeyboardInterrupt")
       THEN /\ s_i' = AfterError(s_i, Len(messages))
            /\ s_pc' = "for"
            /\ UNCHANGED s_log
       ELSE IF /\ s_pc # "reconnect"
               /\ Catches(ExceptException, "KeyboardInterrupt")
       THEN /\ s_pc' = "reconnect"
            /\ UNCHANGED <<s_i, s_log>>
       ELSE /\ s_pc' = "exit"
            /\ s_log' = "Shutdown complete"
            /\ UNCHANGED s_i
    /\ UNCHANGED <<client, bsky, processed_messages, messages,
                   message_parts, s_k, parent, s_tick, s_attempts, s_failed,
                   s_posts, s_last, s_tick_tried, s_reader, s_delivered>>
    /\ UNCHANGED <<splitVars, formatVars, facetVars, pollVars>>

\* The steps of the program itself.
StreamStep ==
    \/ StreamGetDataRaises
    \/ StreamGetData
    \/ StreamSkip
    \/ StreamFormat
    \/ StreamFormatRaises
    \/ StreamSendPost
    \/ StreamProcessed
    \/ StreamSleep
    \/ StreamReconnect

NextStream == StreamStep \/ StreamInterrupt

SpecStream == InitStream /\ [][NextStream]_vars

\* The streaming variant under weak fairness: a step of the program that
\* stays possible is taken, since no statement of the loop blocks for
\* ever.  Nothing requires an interrupt to arrive.
SpecStreamFair == SpecStream /\ WF_vars(StreamStep)

---------------------------------------------------------------------------
(* Either program, whichever is started.                                   *)

InitMonitor == InitPoll \/ InitStream

NextMonitor == NextPoll \/ NextStream

SpecMonitor == InitMonitor /\ [][NextMonitor]_vars

---------------------------------------------------------------------------
(* Claims about the streaming variant.                                     *)

\* C2: once a publish attempt for a message has failed, no part of that
\* message is ever submitted again, on the same tick or a later one.
StreamFailedNeverResubmitted ==
    [][\A c \in StreamChunks :
           c[1] \in s_failed => s_attempts'[c] = s_attempts[c]]_vars

\* C4: two messages of a batch that differ in category or flag are not
\* treated as the same identity: when no publish call has failed, the tick
\* ends with every message of the batch that formats submitted.
StreamDistinctMessagesAllSubmitted ==
    (s_pc = "sleep" /\ s_failed = {}) =>
        \A i \in 1 .. Len(messages) :
            ~FormatRaises(messages[i]) => s_attempts[<<messages[i], 1>>] >= 1

\* C11: a message formatted into several parts is posted as one linear
\* reply chain.  Part 1 is a top-level post; part k > 1 is a reply to the
\* post the service accepted just before it, which is part k-1 of the same
\* message; and part k is handed to send_post only when parent is the
\* handle of the accepted part k-1.
StreamThreadIsLinearChain ==
    /\ \A p \in s_posts :
          IF p.part = 1
          THEN p.reply_to = 0
          ELSE \E q \in s_posts :
                  /\ q.handle = p.reply_to
                  /\ q.handle = p.handle - 1
                  /\ q.name = p.name
                  /\ q.part = p.part - 1
    /\ \A p, q \in s_posts :
          (p.reply_to # 0 /\ p.reply_to = q.reply_to) => p = q
    /\ (s_pc = "send" /\ s_k > 1) =>
          \E q \in s_posts :
             /\ q.handle = parent
             /\ q.handle = Cardinality(s_posts)
             /\ q.name = messages[s_i]
             /\ q.part = s_k - 1

\* C11 witness: the third part of the long message has been accepted.
StreamThreadWitness ==
    \E p \in s_posts : p.name = "long" /\ p.part = 3 /\ p.reply_to # 0

\* C12: whatever error the fetch raises (the URL cannot be opened, the read
\* times out, the body is no UTF-8 or no JSON), it does not leave the
\* poller: the loop is not ended by it.
PollFetchErrorNeverEndsLoop ==
    p_err \in FetchErrors => p_pc # "crashed"

\* C14: every error raised by client.get_data is caught, and the handler
\* leads to another read on a new client.  Whenever the handler has been
\* entered (and the run is followed for another iteration), the loop comes
\* to line 134 with a client that is not the one whose read raised, and
\* from line 134 the read is made, unless an interrupt ends the process
\* first.
StreamErrorThenFreshRead ==
    /\ (s_pc = "reconnect" /\ s_tick < MaxStreamTicks)
           ~> ((s_pc = "get_data" /\ client > s_reader) \/ s_int)
    /\ (s_pc = "get_data" /\ client > s_reader)
           ~> (s_reader = client \/ s_int)

\* C14 witness: get_data raised on the first client and the second client
\* has been read from.
StreamFreshReadWitness ==
    /\ client = 2
    /\ s_reader = 2
    /\ s_pc \in {"for", "sleep", "reconnect"}
    /\ ~s_int

\* Whether the service accepted all parts of a message one after another,
\* in order, with no other post between them.
FullyPosted(name) ==
    \E h \in 0 .. Cardinality(s_posts) :
        \A k \in 1 .. Len(MessageParts[name]) :
            \E p \in s_posts :
                p.handle = h + k /\ p.name = name /\ p.part = k

\* C17: an id is in processed_messages only if all parts of a message
\* with that id were accepted, in order.  A message whose formatting
\* raised, or one of whose send_post calls raised and that was not posted
\* whole at another time, does not have its id in the set.
ProcessedOnlyWhenFullyPosted ==
    \A id \in processed_messages :
        \E name \in DOMAIN MessageParts :
            MsgId[name] = id /\ FullyPosted(name)

\* C17 witness: a send_post call for the long message raised, the message
\* came again and its three parts were accepted; only then is its id in
\* processed_messages.
ProcessedWitness ==
    /\ "long" \in s_failed
    /\ MsgId["long"] \in processed_messages
    /\ s_attempts[<<"long", 3>>] = 1

\* C18: the reconnect handler replaces the data-source client and nothing
\* else: processed_messages and the posting client are the same after it.
\* So no part of a message whose id is in processed_messages is handed to
\* send_post again, before or after a reconnect.
ReconnectKeepsProcessed ==
    [][/\ (s_pc = "reconnect" /\ s_pc' = "get_data") =>
              /\ processed_messages' = processed_messages
              /\ bsky' = bsky
              /\ client' # client
       /\ \A c \in StreamChunks :
              MsgId[c[1]] \in processed_messages =>
                  s_attempts'[c] = s_attempts[c]]_vars

\* C18 witness: plain was posted on the first iteration, get_data raised
\* on the second, and on the third the new client returned plain again,
\* which was skipped.
ReconnectWitness ==
    /\ s_tick = 3
    /\ client = 2
    /\ s_reader = 2
    /\ s_pc = "sleep"
    /\ messages = <<"plain">>
    /\ s_tick_tried = {}
    /\ \E p \in s_posts : p.name = "plain" /\ p.tick = 1
    /\ s_attempts[<<"plain", 1>>] = 1

---------------------------------------------------------------------------
(* Claims about both programs.                                             *)

\* C13: a publish call that raises costs only its own message.  Polling:
\* a tick that fetched a batch ends with every identity of the batch
\* handed to send_post on this tick, unless it was in the batch before,
\* whether the calls were accepted or raised; and only a fetch error ends
\* the loop.  Streaming: a tick ends with every message of the list that
\* formats handed to send_post on this tick, unless its id is in
\* processed_messages, whichever calls raised; and the loop has not ended.
PublishErrorCostsOneMessage ==
    /\ (p_pc = "sleep" /\ data.ok /\ data.rows # <<>>) =>
          /\ new_messages = {}
          /\ \A id \in CurrentMessages(data.rows) :
                id \in p_tick_new \/ id \in p_last_batch
    /\ p_pc = "crashed" => p_err \in FetchErrors
    /\ (s_pc = "sleep" /\ messages # <<>>) =>
          \A i \in 1 .. Len(messages) :
             \/ FormatRaises(messages[i])
             \/ messages[i] \in s_tick_tried
             \/ MsgId[messages[i]] \in processed_messages
    /\ s_failed # {} => (s_pc = "exit" <=> s_int)

\* C13 witness: the streaming tick is over; send_post raised for the first
\* message of the list, and the second, another message, was handed to
\* send_post after it.
PublishErrorWitness ==
    /\ s_pc = "sleep"
    /\ s_tick = 1
    /\ Len(messages) = 2
    /\ messages[1] \in s_failed
    /\ MsgId[messages[1]] \notin processed_messages
    /\ messages[2] # messages[1]
    /\ messages[2] \in s_tick_tried

\* C15: every send_post call of either program passes the hashtag facets
\* of the text it posts, one for each token beginning with '#'.
EveryPostCarriesItsFacets ==
    /\ p_last # <<>> =>
          p_last[1].facets = create_hashtag_facets(p_last[1].text)
    /\ s_last # <<>> =>
          s_last[1].facets = create_hashtag_facets(s_last[1].text)

\* C16: an interrupt is swallowed by no except clause of either program.
\* Wherever the loop is when it arrives (the fetch or the read, the for
\* loop, a send_post call in the middle of a thread, the sleep, the
\* reconnect handler), the process is at its exit from then on and the
\* last line it logged is the shutdown line of its __main__.
InterruptEndsProcess ==
    /\ p_int => (p_pc = "exit" /\ p_log = "Stopping F1 Live Data Monitor...")
    /\ s_int => (s_pc = "exit" /\ s_log = "Shutdown complete")

\* C16 witness: the interrupt arrived in the middle of a thread, after the
\* first part of the long message was accepted and before the second was
\* sent, and the process is at its exit.
InterruptMidThreadWitness ==
    /\ s_int
    /\ s_pc = "exit"
    /\ s_log = "Shutdown complete"
    /\ s_i >= 1 /\ s_i <= Len(messages)
    /\ messages[s_i] = "long"
    /\ s_k = 2
    /\ s_attempts[<<"long", 1>>] = 1
    /\ s_attempts[<<"long", 2>>] = 0

===========================================================================
